---- MODULE Spec2Model ----
(***************************************************************************)
(* RGB-D capture loops of multiview-recon.                                 *)
(*                                                                         *)
(* Four capture scripts share one loop shape:                              *)
(*   "get_images"       src/utils/get_images.py       (raw, color+depth)   *)
(*   "new_image_geting" src/utils/new_image_geting.py (aligned, masked)    *)
(*   "test_get_images"  src/test/test_get_images.py   (aligned, depth hint)*)
(*   "try"              src/utils/try.py              (aligned, key 's')   *)
(* One run of capture_rgbd_images is modelled statement group by statement *)
(* group; pc is the position of the run.  An image is one pixel: a color   *)
(* image is a <<b, g, r>> triple, a depth image a one-element sequence of  *)
(* a 16-bit sample in millimetres, and an absent frame is <<>>.            *)
(***************************************************************************)
EXTENDS Integers, Sequences, FiniteSets, TLC

\* ------------------------------------------------------------- bounds
\* wait_for_frames is called at most MaxPulls times in a run; the requested
\* sample count ranges over 0..MaxPulls.
MaxPulls == 2
\* time.time() readings range over 0..MaxTime.
MaxTime == 2
\* At most MaxSilentFailures cv2.imwrite calls of a run return False.
MaxSilentFailures == 1
\* A script is launched at most MaxRuns times from the command line.
MaxRuns == 2
\* Directory names that can exist beforehand carry suffixes _1 .. _MaxSuffix.
MaxSuffix == 2
\* Raw depth samples given to the normalisation: 0 .. MaxDepthMM, and 65535.
MaxDepthMM == 5100
\* A depth-hint map has 1 .. MaxSide rows and 1 .. MaxSide columns.
MaxSide == 2
\* File names are formed for the indices 0 .. MaxSmallIndex and some around 100, 1000.
MaxSmallIndex == 11

\* ---------------------------------------------------------- constants
KeySpace == 32
KeyQ == 113
KeyS == 115
NoKey == 255
DepthThreshold == 800
\* the 3 of {image_index:03d}
NameWidth == 3

Variants == {"get_images", "new_image_geting", "test_get_images", "try"}
Modes == {"manual", "automatic"}
Times == 0..MaxTime
\* Configured intervals: capture on every frame, or one second apart.
Intervals == {0, 1}

NoFrame == <<>>
ZeroFrame == <<0, 0, 0>>
Green == <<0, 255, 0>>
Red == <<0, 0, 255>>
\* What wait_for_frames can deliver: a near green frame pair, a far red one, and the
\* pairs that lack a channel.
NearGreen == [color |-> Green, depth |-> <<251>>]
FarRed == [color |-> Red, depth |-> <<5001>>]
ValidPairs == {NearGreen, FarRed}
FramePairs ==
    ValidPairs \cup {[color |-> NoFrame, depth |-> <<251>>],
                     [color |-> Green, depth |-> NoFrame],
                     [color |-> NoFrame, depth |-> NoFrame]}

VARIABLES
    variant,                \* which script runs
    capture_mode,           \* "manual" | "automatic"
    num_images,             \* requested sample count
    interval,               \* automatic mode: seconds between captures
    pc,                     \* position of the run
    pipeline,               \* "idle" | "streaming" | "stopped"
    stop_calls,             \* calls of pipeline.stop()
    exc,                    \* "none", or the step whose exception is propagating
    image_index,
    last_capture_timestamp,
    previous_color_image,
    color_frame,
    depth_frame,
    key,
    current_timestamp,
    disk,                   \* files on disk: set of [dir, index, data]
    saved,                  \* save calls that returned: sequence of [index, color, depth]
    pulls,                  \* calls of pipeline.wait_for_frames()
    silent_failures,        \* cv2.imwrite calls that returned False
    shell_pc,               \* position of the command-line session
    check_sees_datasets,    \* the working directory is ../datasets itself
    cwd_names,              \* names that exist in the working directory
    dataset_dirs,           \* names that exist under ../datasets
    dataset_files,          \* sample files under ../datasets: set of [dir, index]
    base_dir,               \* get_save_dir: its argument
    suffix,                 \* get_save_dir: its counter i
    dataset_save_path,      \* __main__: the name get_save_dir returned
    sessions,               \* finished runs: sequence of [dir, existed]
    overwritten,            \* sample files written over an existing file
    fn,                     \* the per-pixel computation under study
    fn_pc,                  \* its position
    depth_image,            \* one raw depth sample
    depth_aligned,          \* one metric depth sample (float32)
    color_image,            \* one BGR pixel
    depth_threshold,
    depth_mask,
    color_mask,
    combined_mask,
    color_masked,
    depth_masked,
    depth_hint,             \* a metric depth map: sequence of rows of float32
    hint_file,              \* the bytes of a depth-hint file
    name_stem,              \* "color" | "depth": which file of a sample is named
    first_index,            \* the indices of two samples of a session
    second_index,
    first_name,             \* their file names, as character codes
    second_name

run == <<variant, capture_mode, num_images, interval, pc, pipeline, stop_calls, exc,
         image_index, last_capture_timestamp, previous_color_image, color_frame,
         depth_frame, key, current_timestamp, disk, saved, pulls, silent_failures>>

shell == <<shell_pc, check_sees_datasets, cwd_names, dataset_dirs, dataset_files,
           base_dir, suffix, dataset_save_path, sessions, overwritten>>

pixel == <<fn, fn_pc, depth_image, depth_aligned, color_image, depth_threshold,
           depth_mask, color_mask, combined_mask, color_masked, depth_masked,
           depth_hint, hint_file>>

naming == <<name_stem, first_index, second_index, first_name, second_name>>

vars == <<run, shell, pixel, naming>>

params == <<variant, capture_mode, num_images, interval>>
session == <<image_index, last_capture_timestamp, previous_color_image>>
locals == <<color_frame, depth_frame, key, current_timestamp>>
stream == <<pipeline, stop_calls>>
output == <<disk, saved>>
counters == <<pulls, silent_failures>>

\* ------------------------------------------------- float32 arithmetic
\* A float32 is <<m, e>>, standing for m * 2^e with 2^23 <= m < 2^24 (m negated for
\* a negative number), or <<0, 0>>.
Pow2(n) == 2 ^ n

F32Zero == <<0, 0>>

\* Round to nearest, ties to even: mantissa m with remainder r of denominator den.
RoundEven(m, r, den) ==
    IF 2 * r > den \/ (2 * r = den /\ m % 2 = 1) THEN m + 1 ELSE m

F32Norm(m, e) == IF m = Pow2(24) THEN <<Pow2(23), e + 1>> ELSE <<m, e>>

RECURSIVE F32DivStep(_, _, _)
F32DivStep(m, r, e) ==
    IF m >= Pow2(23) THEN <<m, r, e>>
    ELSE F32DivStep(2 * m + (IF 2 * r >= 1000 THEN 1 ELSE 0), (2 * r) % 1000, e - 1)

\* np.asanyarray(...).astype(np.float32) / 1000.0 on one uint16 sample.
F32DivBy1000(d) ==
    IF d = 0 THEN F32Zero
    ELSE LET s == F32DivStep(d \div 1000, d % 1000, 0)
         IN  F32Norm(RoundEven(s[1], s[2], 1000), s[3])

\* A plausible slip: >= in the range test.
F32AtLeast5(x) ==
    /\ x[1] > 0
    /\ \/ x[2] > -21
       \/ x[2] = -21 /\ x[1] >= 10485760

\* x > 5.0, where 5.0 = 10485760 * 2^-21.
F32GreaterThan5(x) ==
    /\ x[1] > 0
    /\ \/ x[2] > -21
       \/ x[2] = -21 /\ x[1] > 10485760

\* A plausible slip: a sample beyond the range is halved instead of zeroed.
FilterDepthHalving(x) ==
    IF x[1] <= 0 THEN F32Zero
    ELSE IF F32GreaterThan5(x) THEN <<x[1], x[2] - 1>>
    ELSE x

\* depth_aligned[(depth_aligned <= 0) | (depth_aligned > 5.0)] = 0
FilterDepth(x) == IF x[1] <= 0 \/ F32GreaterThan5(x) THEN F32Zero ELSE x

\* depth_aligned * 1000 in float32 (1000 = 125 * 2^3).
F32MulBy1000(x) ==
    IF x = F32Zero THEN F32Zero
    ELSE LET p == x[1] * 125
             s == IF p < Pow2(30) THEN 6 ELSE 7
         IN  F32Norm(RoundEven(p \div Pow2(s), p % Pow2(s), Pow2(s)), x[2] + 3 + s)

\* .astype(np.uint16): truncation toward zero, modulo 2^16.
F32ToUint16(x) ==
    IF x = F32Zero THEN 0
    ELSE IF x[2] >= 0 THEN (x[1] * Pow2(x[2])) % 65536
    ELSE IF -x[2] >= 24 THEN 0
    ELSE (x[1] \div Pow2(-x[2])) % 65536

\* The metric depth map the depth-hint variant computes from a raw sample.
MetricDepth(d) == FilterDepth(F32DivBy1000(d))

\* (depth_aligned * 1000).astype(np.uint16)
DepthPngSample(d) == F32ToUint16(F32MulBy1000(MetricDepth(d)))

\* ------------------------------------------------- depth-hint bytes
\* n as `count` little-endian bytes.
RECURSIVE LEBytes(_, _)
LEBytes(n, count) ==
    IF count = 0 THEN <<>> ELSE <<n % 256>> \o LEBytes(n \div 256, count - 1)

\* IEEE-754 binary32 bit pattern of a non-negative float32.
F32Bits(x) ==
    IF x = F32Zero THEN 0 ELSE (x[2] + 150) * Pow2(23) + (x[1] - Pow2(23))

\* IEEE-754 binary32 bit pattern of any float32 <<m, e>>.
F32SignedBits(x) == IF x[1] < 0 THEN Pow2(31) + F32Bits(<<-x[1], x[2]>>) ELSE F32Bits(x)

\* ndarray.tofile on float32 samples: 4 bytes each, one after the other.
RECURSIVE SampleBytes(_)
SampleBytes(row) ==
    IF row = <<>> THEN <<>>
    ELSE LEBytes(F32SignedBits(Head(row)), 4) \o SampleBytes(Tail(row))

\* ... on a 2-D array in C order: row after row.
RECURSIVE RowBytes(_)
RowBytes(rows) ==
    IF rows = <<>> THEN <<>> ELSE SampleBytes(Head(rows)) \o RowBytes(Tail(rows))

\* A plausible slip: struct.pack('I', ...) for the two header fields.
DepthHintFileNarrowHeader(map) ==
    LEBytes(Len(map[1]), 4) \o LEBytes(Len(map), 4) \o RowBytes(map)

\* f.write(struct.pack('Q', depth_hint.shape[1])); f.write(struct.pack('Q',
\* depth_hint.shape[0])); depth_hint.astype(np.float32).tofile(f).  'Q' and tofile
\* use the host's size and byte order: 8 bytes, little-endian on x86-64 and ARM64.
DepthHintFile(map) ==
    LEBytes(Len(map[1]), 8) \o LEBytes(Len(map), 8) \o RowBytes(map)

\* The depth-hint file of a 1 x 1 map.
DepthHintBytes(x) == DepthHintFile(<<<<x>>>>)

\* --------------------------------------------------------- masking
RoundDiv(n, d) == RoundEven(n \div d, n % d, d)

Max3(a, b, c) == IF a >= b /\ a >= c THEN a ELSE IF b >= c THEN b ELSE c
Min3(a, b, c) == IF a <= b /\ a <= c THEN a ELSE IF b <= c THEN b ELSE c

\* cv2.cvtColor(color_image, cv2.COLOR_BGR2HSV) on one 8-bit pixel: <<h, s, v>>.
BGR2HSV(px) ==
    LET b == px[1]
        g == px[2]
        r == px[3]
        v == Max3(b, g, r)
        diff == v - Min3(b, g, r)
        sdiv == IF v = 0 THEN 0 ELSE RoundDiv(255 * 4096, v)
        hdiv == IF diff = 0 THEN 0 ELSE RoundDiv(180 * 4096, 6 * diff)
        s == (diff * sdiv + 2048) \div 4096
        h0 == IF v = r THEN g - b
              ELSE IF v = g THEN b - r + 2 * diff
              ELSE r - g + 4 * diff
        h1 == (h0 * hdiv + 2048) \div 4096
        h == IF h1 < 0 THEN h1 + 180 ELSE h1
    IN  <<h, s, v>>

\* cv2.inRange(hsv, [35, 40, 40], [85, 255, 255])
ColorMask(px) ==
    LET hsv == BGR2HSV(px)
    IN  IF /\ 35 <= hsv[1] /\ hsv[1] <= 85
           /\ 40 <= hsv[2] /\ hsv[2] <= 255
           /\ 40 <= hsv[3] /\ hsv[3] <= 255
        THEN 255 ELSE 0

\* A plausible slip: the comparisons include the bounds.
DepthMaskInclusive(d, t) == IF d >= -t /\ d <= t THEN 255 ELSE 0

\* ((depth_image > -depth_threshold) & (depth_image < depth_threshold)) * 255
DepthMask(d, t) == IF d > -t /\ d < t THEN 255 ELSE 0

\* A plausible slip: the masks are joined with bitwise_or.
CombinedMaskEither(px, d, t) ==
    IF DepthMask(d, t) = 255 \/ ColorMask(px) = 255 THEN 255 ELSE 0

\* cv2.bitwise_and(depth_mask, color_mask): both are 0 or 255.
CombinedMask(px, d, t) ==
    IF DepthMask(d, t) = 255 /\ ColorMask(px) = 255 THEN 255 ELSE 0

MaskedColor(px, d, t) == IF CombinedMask(px, d, t) # 0 THEN px ELSE ZeroFrame
MaskedDepth(px, d, t) == IF CombinedMask(px, d, t) # 0 THEN d ELSE 0

\* ------------------------------------------------------ sample writer
File(dir, stem, data) == [dir |-> dir, stem |-> stem, data |-> data]

\* The files one save call writes, in order, from a color pixel px and a depth sample d.
\* get_images.save_image
WritesRaw(px, d) ==
    <<File("color", "color", px), File("depth", "depth", <<d>>)>>

\* A plausible slip: the masked images are written in place of the raw ones.
WritesMaskedOnly(px, d) ==
    <<File("raw_color", "color", MaskedColor(px, d, DepthThreshold)),
      File("raw_depth", "depth", <<MaskedDepth(px, d, DepthThreshold)>>),
      File("mask_color", "color", MaskedColor(px, d, DepthThreshold)),
      File("mask_depth", "depth", <<MaskedDepth(px, d, DepthThreshold)>>)>>

\* new_image_geting.save_rgbd_with_mask
WritesMasked(px, d) ==
    <<File("raw_color", "color", px),
      File("raw_depth", "depth", <<d>>),
      File("mask_color", "color", MaskedColor(px, d, DepthThreshold)),
      File("mask_depth", "depth", <<MaskedDepth(px, d, DepthThreshold)>>)>>

\* test_get_images.save_image, called with (depth_aligned * 1000).astype(np.uint16)
\* and depth_aligned
WritesHint(px, d) ==
    <<File("color", "color", px),
      File("depth", "depth", <<DepthPngSample(d)>>),
      File("depth_hint", "color", DepthHintBytes(MetricDepth(d)))>>

\* try.py: two cv2.imwrite calls into save_path
WritesTry(px, d) ==
    <<File("data", "color", px), File("data", "depth", <<d>>)>>

Writes(v, px, d) ==
    CASE v = "get_images" -> WritesRaw(px, d)
      [] v = "new_image_geting" -> WritesMasked(px, d)
      [] v = "test_get_images" -> WritesHint(px, d)
      [] OTHER -> WritesTry(px, d)

\* cv2.imwrite returns False without raising when it cannot write the file, and the
\* scripts ignore its result; open()/tofile() raise instead.
CanFailSilently(f) == f.dir # "depth_hint"

\* How a save call can end: `done` writes were attempted and did not raise (the call
\* raised at write done + 1 when done < Len(ws)); `ok` are those that wrote their
\* file; at most `budget` of them returned False.
SaveOutcomes(ws, budget) ==
    UNION {{[done |-> k, ok |-> S] :
               S \in {T \in SUBSET (1..k) :
                         /\ \A i \in 1..k : ~CanFailSilently(ws[i]) => i \in T
                         /\ k - Cardinality(T) <= budget}} :
           k \in 0..Len(ws)}

Written(ws, o, index) ==
    {[dir |-> ws[i].dir, stem |-> ws[i].stem, index |-> index, data |-> ws[i].data] :
        i \in o.ok}

\* The writes of every variant on every frame pair, computed once.
WritesOf ==
    [v \in Variants |-> [f \in ValidPairs |-> Writes(v, f.color, f.depth[1])]]

\* ------------------------------------------------------ loop conditions
\* A plausible slip: <= in the while test.
LoopConditionOffByOne(v, index, n) == IF v = "try" THEN TRUE ELSE index <= n

\* while image_index < num_images  (try.py: while True)
LoopCondition(v, index, n) == IF v = "try" THEN TRUE ELSE index < n

\* Plausible slips: only one of the two channels is tested.
MissingChannelColorOnly(c, d) == c = NoFrame
MissingChannelDepthOnly(c, d) == d = NoFrame

\* if not color_frame or not depth_frame: continue
MissingChannel(c, d) == c = NoFrame \/ d = NoFrame

\* A plausible slip: every script captures on 's', as try.py does.
CaptureKeyS(v) == KeyS

\* A plausible slip: the capture key is the quit key.
CaptureKeyQuit(v) == KeyQ

\* key == ord(' ')  (try.py: key == ord('s'))
CaptureKey(v) == IF v = "try" THEN KeyS ELSE KeySpace

\* What cv2.waitKey(1) & 0xFF can return that a script distinguishes: its capture
\* key, the quit key, and 255 for no key (any other key acts like no key).
Keys(v) == {CaptureKey(v), KeyQ, NoKey}

\* if capture_mode == "manual"  (try.py has the manual branch only)
IsManual(v, mode) == v = "try" \/ mode = "manual"

\* A plausible slip: > in the interval test.
IntervalElapsedStrict(t, last, i) == t - last > i

\* current_timestamp - last_capture_timestamp >= interval
IntervalElapsed(t, last, i) == t - last >= i

\* A plausible slip: the quit test compares with ord('Q').
QuitRequestedUpper(k) == k = 81

\* if key == ord('q'): break
QuitRequested(k) == k = KeyQ

\* A plausible slip: the increment is forgotten.
NextIndexStuck(i) == i

\* image_index += 1
NextIndex(i) == i + 1

\* A plausible slip: the preview's right half is never refreshed.
PreviousAfterPersistStale(v, prev, color) == prev

\* previous_color_image = color_image.copy()  (try.py keeps no previous image)
PreviousAfterPersist(v, prev, color) == IF v = "try" THEN prev ELSE color

\* pipeline.start(config) is inside the try block only in test_get_images.py
StartInsideTry(v) == v = "test_get_images"

\* ----------------------------------------------------------------- Init
\* The state of capture_rgbd_images before pipeline.start(config).
RunInit ==
    /\ variant \in Variants
    /\ capture_mode \in Modes
    /\ num_images \in 0..MaxPulls
    /\ interval \in Intervals
    /\ variant = "try" => capture_mode = "manual" /\ num_images = 0
    /\ IsManual(variant, capture_mode) => interval = 0
    /\ pc = "start"
    /\ pipeline = "idle"
    /\ stop_calls = 0
    /\ exc = "none"
    /\ image_index = 0
    /\ last_capture_timestamp = 0
    /\ previous_color_image = ZeroFrame
    /\ color_frame = NoFrame
    /\ depth_frame = NoFrame
    /\ key = NoKey
    /\ current_timestamp = 0
    /\ disk = {}
    /\ saved = <<>>
    /\ pulls = 0
    /\ silent_failures = 0

\* One capture session, seen from inside capture_rgbd_images.
InSession ==
    /\ shell_pc = "capture"
    /\ check_sees_datasets = FALSE
    /\ cwd_names = {}
    /\ dataset_dirs = {}
    /\ dataset_files = {}
    /\ base_dir = <<>>
    /\ suffix = 0
    /\ dataset_save_path = <<>>
    /\ sessions = <<>>
    /\ overwritten = {}

\* No per-pixel computation is singled out.
InLoop ==
    /\ fn = "none"
    /\ fn_pc = "input"
    /\ depth_image = 0
    /\ depth_aligned = <<0, 0>>
    /\ color_image = <<0, 0, 0>>
    /\ depth_threshold = DepthThreshold
    /\ depth_mask = 0
    /\ color_mask = 0
    /\ combined_mask = 0
    /\ color_masked = <<0, 0, 0>>
    /\ depth_masked = 0
    /\ depth_hint = <<>>
    /\ hint_file = <<>>
    /\ name_stem = "color"
    /\ first_index = 0
    /\ second_index = 0
    /\ first_name = <<>>
    /\ second_name = <<>>

\* capture_rgbd_images before its first statement, its arguments fixed.
RunParked ==
    /\ RunInit
    /\ variant = "get_images"
    /\ capture_mode = "manual"
    /\ num_images = 0

Init == RunInit /\ InSession /\ InLoop

\* -------------------------------------------------------------- actions
\* pipeline.start(config) succeeds.
StartStream ==
    /\ pc = "start"
    /\ pipeline' = "streaming"
    /\ pc' = "while"
    /\ UNCHANGED <<naming, pixel, shell, params, stop_calls, exc, session, locals, output, counters>>

\* pipeline.start(config) raises: outside the try block the exception leaves the
\* function at once, inside it the finally block runs first.
StartFails ==
    /\ pc = "start"
    /\ exc' = "start"
    /\ pc' = IF StartInsideTry(variant) THEN "finally" ELSE "raised"
    /\ UNCHANGED <<naming, pixel, shell, params, stream, session, locals, output, counters>>

\* The while test.
WhileTest ==
    /\ pc = "while"
    /\ pc' = IF LoopCondition(variant, image_index, num_images) THEN "wait" ELSE "finally"
    /\ UNCHANGED <<naming, pixel, shell, params, stream, exc, session, locals, output, counters>>

\* frames = pipeline.wait_for_frames(); (align.process); get_color_frame();
\* get_depth_frame(); and the skip test.
WaitForFrames ==
    /\ pc = "wait"
    /\ pulls < MaxPulls
    /\ \E f \in FramePairs :
          /\ color_frame' = f.color
          /\ depth_frame' = f.depth
          /\ pc' = IF MissingChannel(f.color, f.depth) THEN "while" ELSE "preview"
    /\ pulls' = pulls + 1
    /\ UNCHANGED <<naming, pixel, shell, params, stream, exc, session, key, current_timestamp, output,
                   silent_failures>>

\* wait_for_frames() or align.process() raises.
WaitForFramesRaises ==
    /\ pc = "wait"
    /\ pulls < MaxPulls
    /\ pulls' = pulls + 1
    /\ exc' = "wait_for_frames"
    /\ pc' = "finally"
    /\ UNCHANGED <<naming, pixel, shell, params, stream, session, locals, output, silent_failures>>

\* np.hstack, cv2.resize, cv2.imshow, then key = cv2.waitKey(1) & 0xFF.
Preview ==
    /\ pc = "preview"
    /\ \E k \in Keys(variant) : key' = k
    /\ pc' = "capture"
    /\ UNCHANGED <<naming, pixel, shell, params, stream, exc, session, color_frame, depth_frame,
                   current_timestamp, output, counters>>

\* Building or showing the preview raises, before the key is read.
PreviewRaises ==
    /\ pc = "preview"
    /\ exc' = "preview"
    /\ pc' = "finally"
    /\ UNCHANGED <<naming, pixel, shell, params, stream, session, locals, output, counters>>

\* One save call on the current frame pair, and the bookkeeping that follows it.
\* `auto` says whether last_capture_timestamp is set (to t) after the save.
Persist(auto, t) ==
    LET ws == WritesOf[variant][[color |-> color_frame, depth |-> depth_frame]]
    IN  \E o \in SaveOutcomes(ws, MaxSilentFailures - silent_failures) :
          /\ disk' = disk \cup Written(ws, o, image_index)
          /\ silent_failures' = silent_failures + (o.done - Cardinality(o.ok))
          /\ IF o.done < Len(ws)
             THEN /\ exc' = "save"
                  /\ pc' = "finally"
                  /\ UNCHANGED <<session, saved>>
             ELSE /\ saved' = Append(saved, [index |-> image_index,
                                             color |-> color_frame,
                                             depth |-> depth_frame])
                  /\ last_capture_timestamp' =
                        IF auto THEN t ELSE last_capture_timestamp
                  /\ previous_color_image' =
                        PreviousAfterPersist(variant, previous_color_image, color_frame)
                  /\ image_index' = NextIndex(image_index)
                  /\ pc' = "quit"
                  /\ UNCHANGED exc

\* The manual branch: save when the capture key was read.
CaptureManual ==
    /\ pc = "capture"
    /\ IsManual(variant, capture_mode)
    /\ IF key = CaptureKey(variant)
       THEN Persist(FALSE, 0)
       ELSE /\ pc' = "quit"
            /\ UNCHANGED <<exc, session, output, silent_failures>>
    /\ UNCHANGED <<naming, pixel, shell, params, stream, locals, pulls>>

\* The automatic branch: read the clock, save when the interval has elapsed.
CaptureAutomatic ==
    /\ pc = "capture"
    /\ ~IsManual(variant, capture_mode)
    /\ \E t \in Times :
          /\ current_timestamp' = t
          /\ IF IntervalElapsed(t, last_capture_timestamp, interval)
             THEN Persist(TRUE, t)
             ELSE /\ pc' = "quit"
                  /\ UNCHANGED <<exc, session, output, silent_failures>>
    /\ UNCHANGED <<naming, pixel, shell, params, stream, color_frame, depth_frame, key, pulls>>

\* if key == ord('q'): break
QuitCondition ==
    /\ pc = "quit"
    /\ pc' = IF QuitRequested(key) THEN "finally" ELSE "while"
    /\ UNCHANGED <<naming, pixel, shell, params, stream, exc, session, locals, output, counters>>

\* finally: pipeline.stop(); cv2.destroyAllWindows().  stop() on a pipeline that was
\* never started raises.
Finally ==
    /\ pc = "finally"
    /\ stop_calls' = stop_calls + 1
    /\ IF pipeline = "streaming"
       THEN /\ pipeline' = "stopped"
            /\ pc' = IF exc = "none" THEN "returned" ELSE "raised"
            /\ UNCHANGED exc
       ELSE /\ exc' = "stop"
            /\ pc' = "raised"
            /\ UNCHANGED pipeline
    /\ UNCHANGED <<naming, pixel, shell, params, session, locals, output, counters>>

Next ==
    \/ StartStream
    \/ StartFails
    \/ WhileTest
    \/ WaitForFrames
    \/ WaitForFramesRaises
    \/ Preview
    \/ PreviewRaises
    \/ CaptureManual
    \/ CaptureAutomatic
    \/ QuitCondition
    \/ Finally

Spec == Init /\ [][Next]_vars

\* ------------------------------------------------- command-line sessions
\* A directory name is its base word followed by the numbers appended to it:
\* <<"foo">> is foo, <<"foo", 1>> is foo_1, <<"foo", 1, 2>> is foo_1_2.
Bases == {<<"foo">>, <<"foo", 1>>}

\* A plausible slip: the counter skips every other candidate.
NextCandidateSkipping(k) == k + 2

\* i += 1
NextCandidate(k) == k + 1

\* f"{base_dir}_{i}"
Suffixed(base, k) == Append(base, k)

\* The names that may exist before the first launch.
Names == Bases \cup {Suffixed(b, k) : b \in Bases, k \in 1..MaxSuffix}

\* os.path.exists(name), evaluated in the working directory.
Exists(name) == name \in cwd_names

\* The sample files a session that persisted n samples has written into dir.
SessionFiles(dir, n) == {[dir |-> dir, index |-> k] : k \in 0..(n - 1)}

\* The scripts are launched one after the other; the three __main__ blocks are the
\* same, and the loop of each session is summarised by the samples it persisted.
ShellInit ==
    /\ RunParked
    /\ InLoop
    /\ shell_pc = "main"
    /\ check_sees_datasets \in BOOLEAN
    /\ cwd_names \in SUBSET Names
    /\ dataset_dirs \in SUBSET Names
    /\ IF check_sees_datasets THEN dataset_dirs = cwd_names ELSE dataset_dirs \subseteq Bases
    /\ dataset_files = {}
    /\ base_dir = <<>>
    /\ suffix = 0
    /\ dataset_save_path = <<>>
    /\ sessions = <<>>
    /\ overwritten = {}

\* __main__ parses save_dir and calls get_save_dir, which returns base_dir at once
\* when it does not exist and otherwise starts its search at i = 1.
GetSaveDirEntry ==
    /\ shell_pc = "main"
    /\ Len(sessions) < MaxRuns
    /\ \E b \in Bases :
          /\ base_dir' = b
          /\ IF ~Exists(b)
             THEN /\ dataset_save_path' = b
                  /\ shell_pc' = "capture"
                  /\ suffix' = 0
             ELSE /\ suffix' = 1
                  /\ shell_pc' = "search"
                  /\ UNCHANGED dataset_save_path
    /\ UNCHANGED <<naming, pixel, run, check_sees_datasets, cwd_names, dataset_dirs, dataset_files,
                   sessions, overwritten>>

\* One turn of `while True` in get_save_dir.
GetSaveDirLoop ==
    /\ shell_pc = "search"
    /\ IF ~Exists(Suffixed(base_dir, suffix))
       THEN /\ dataset_save_path' = Suffixed(base_dir, suffix)
            /\ shell_pc' = "capture"
            /\ UNCHANGED suffix
       ELSE /\ suffix' = NextCandidate(suffix)
            /\ UNCHANGED <<dataset_save_path, shell_pc>>
    /\ UNCHANGED <<naming, pixel, run, check_sees_datasets, cwd_names, dataset_dirs, dataset_files,
                   base_dir, sessions, overwritten>>

\* capture_rgbd_images(os.path.join("../datasets", dataset_save_path), ...):
\* os.makedirs(..., exist_ok=True), then the samples 0 .. n - 1 are written.
CaptureSession ==
    /\ shell_pc = "capture"
    /\ \E n \in 0..MaxPulls :
          LET files == SessionFiles(dataset_save_path, n)
          IN  /\ overwritten' = overwritten \cup (files \cap dataset_files)
              /\ dataset_files' = dataset_files \cup files
    /\ sessions' = Append(sessions, [dir |-> dataset_save_path,
                                     existed |-> dataset_save_path \in dataset_dirs])
    /\ dataset_dirs' = dataset_dirs \cup {dataset_save_path}
    /\ cwd_names' = IF check_sees_datasets
                    THEN cwd_names \cup {dataset_save_path}
                    ELSE cwd_names
    /\ shell_pc' = "main"
    /\ UNCHANGED <<naming, pixel, run, check_sees_datasets, base_dir, suffix, dataset_save_path>>

ShellNext ==
    \/ GetSaveDirEntry
    \/ GetSaveDirLoop
    \/ CaptureSession

\* The get_save_dir loop runs on once it is entered.
Shell == ShellInit /\ [][ShellNext]_vars /\ WF_vars(GetSaveDirLoop)

\* ------------------------------------------------ per-pixel computations
\* Raw depth samples (uint16, millimetres) given to the normalisation.
RawDepths == (0..MaxDepthMM) \cup {65535}

\* Metric samples given to the filter directly: -1.0, 0, 1.0, 5.0, the float32 after
\* 5.0, 2^63, and what the normalisation makes of 1, 251, 5001 and 65535 mm.
MetricSamples ==
    {<<-Pow2(23), -23>>, F32Zero, <<Pow2(23), -23>>, <<10485760, -21>>,
     <<10485761, -21>>, <<Pow2(23), 40>>}
        \cup {F32DivBy1000(d) : d \in {1, 251, 5001, 65535}}

\* BGR pixels given to the masking: pure colors, and greens at both sides of the
\* hue, saturation and value limits of the color range.
Colors ==
    {Green, Red, ZeroFrame, <<255, 255, 255>>, <<255, 0, 0>>,
     <<0, 39, 0>>, <<0, 40, 0>>,
     <<0, 255, 213>>, <<0, 255, 220>>,
     <<212, 255, 0>>, <<221, 255, 0>>,
     <<215, 255, 215>>, <<216, 255, 216>>}

\* Depth samples and thresholds given to the masking (any integer array is accepted).
MaskDepths == {-800, -1, 0, 1, 500, 799, 800, 801, 65535}
Thresholds == {-1, 0, 1, DepthThreshold}

\* Samples and shapes of the metric depth maps given to the depth-hint writer.
HintSamples == {F32Zero, MetricDepth(251), MetricDepth(5000)}
HintMaps ==
    UNION {[1..h -> [1..w -> HintSamples]] : w \in 1..MaxSide, h \in 1..MaxSide}

\* The indices two samples of one session can carry.
IndexSamples == (0..MaxSmallIndex) \cup {99, 100, 101, 998, 999, 1000, 1001, 1010}

\* str(i): the decimal digits of i as character codes.
RECURSIVE Digits(_)
Digits(n) == IF n < 10 THEN <<48 + n>> ELSE Digits(n \div 10) \o <<48 + (n % 10)>>

\* A plausible slip: the index is formatted without padding.
ZeroPadNone(ds, w) == ds

\* The 0-fill of a format width: zeros in front up to w characters, never a cut.
RECURSIVE ZeroPad(_, _)
ZeroPad(ds, w) == IF Len(ds) >= w THEN ds ELSE ZeroPad(<<48>> \o ds, w)

\* f"color_{image_index:03d}.png" and f"depth_{image_index:03d}.png"
FileName(stem, n) ==
    (IF stem = "color" THEN <<99, 111, 108, 111, 114, 95>>
     ELSE <<100, 101, 112, 116, 104, 95>>)
        \o ZeroPad(Digits(n), NameWidth) \o <<46, 112, 110, 103>>

PixelInit ==
    /\ RunParked
    /\ InSession
    /\ fn \in {"normalize", "filter", "mask", "hint", "name"}
    /\ fn_pc = "input"
    /\ depth_image \in
          CASE fn = "normalize" -> RawDepths
            [] fn = "mask" -> MaskDepths
            [] OTHER -> {0}
    /\ depth_aligned \in IF fn = "filter" THEN MetricSamples ELSE {F32Zero}
    /\ color_image \in IF fn = "mask" THEN Colors ELSE {ZeroFrame}
    /\ depth_threshold \in IF fn = "mask" THEN Thresholds ELSE {DepthThreshold}
    /\ depth_mask = 0
    /\ color_mask = 0
    /\ combined_mask = 0
    /\ color_masked = ZeroFrame
    /\ depth_masked = 0
    /\ depth_hint \in IF fn = "hint" THEN HintMaps ELSE {<<>>}
    /\ hint_file = <<>>
    /\ name_stem \in IF fn = "name" THEN {"color", "depth"} ELSE {"color"}
    /\ first_index \in IF fn = "name" THEN IndexSamples ELSE {0}
    /\ second_index \in IF fn = "name" THEN IndexSamples ELSE {0}
    /\ fn = "name" => first_index < second_index
    /\ first_name = <<>>
    /\ second_name = <<>>

\* depth_aligned = np.asanyarray(...).astype(np.float32) / 1000.0
Normalize ==
    /\ fn = "normalize"
    /\ fn_pc = "input"
    /\ depth_aligned' = F32DivBy1000(depth_image)
    /\ fn_pc' = "normalized"
    /\ UNCHANGED <<naming, run, shell, fn, depth_image, color_image, depth_threshold, depth_mask,
                   color_mask, combined_mask, color_masked, depth_masked, depth_hint,
                   hint_file>>

\* depth_aligned[(depth_aligned <= 0) | (depth_aligned > 5.0)] = 0
Filter ==
    /\ \/ fn = "normalize" /\ fn_pc = "normalized"
       \/ fn = "filter" /\ fn_pc = "input"
    /\ depth_aligned' = FilterDepth(depth_aligned)
    /\ fn_pc' = "filtered"
    /\ UNCHANGED <<naming, run, shell, fn, depth_image, color_image, depth_threshold, depth_mask,
                   color_mask, combined_mask, color_masked, depth_masked, depth_hint,
                   hint_file>>

\* The same statement once more, on its own output.
FilterAgain ==
    /\ fn_pc = "filtered"
    /\ depth_aligned' = FilterDepth(depth_aligned)
    /\ fn_pc' = "refiltered"
    /\ UNCHANGED <<naming, run, shell, fn, depth_image, color_image, depth_threshold, depth_mask,
                   color_mask, combined_mask, color_masked, depth_masked, depth_hint,
                   hint_file>>

\* save_rgbd_with_mask: the two masks, their conjunction and the masked images.
SaveRgbdWithMask ==
    /\ fn = "mask"
    /\ fn_pc = "input"
    /\ depth_mask' = DepthMask(depth_image, depth_threshold)
    /\ color_mask' = ColorMask(color_image)
    /\ combined_mask' = CombinedMask(color_image, depth_image, depth_threshold)
    /\ color_masked' = MaskedColor(color_image, depth_image, depth_threshold)
    /\ depth_masked' = MaskedDepth(color_image, depth_image, depth_threshold)
    /\ fn_pc' = "masked"
    /\ UNCHANGED <<naming, run, shell, fn, depth_image, depth_aligned, color_image,
                   depth_threshold, depth_hint, hint_file>>

\* save_image of the depth-hint variant: the .bin file.
WriteDepthHint ==
    /\ fn = "hint"
    /\ fn_pc = "input"
    /\ hint_file' = DepthHintFile(depth_hint)
    /\ fn_pc' = "written"
    /\ UNCHANGED <<naming, run, shell, fn, depth_image, depth_aligned, color_image,
                   depth_threshold, depth_mask, color_mask, combined_mask, color_masked,
                   depth_masked, depth_hint>>

\* save_image forms the paths of two samples of the session.
FormatNames ==
    /\ fn = "name"
    /\ fn_pc = "input"
    /\ first_name' = FileName(name_stem, first_index)
    /\ second_name' = FileName(name_stem, second_index)
    /\ fn_pc' = "named"
    /\ UNCHANGED <<run, shell, fn, depth_image, depth_aligned, color_image,
                   depth_threshold, depth_mask, color_mask, combined_mask, color_masked,
                   depth_masked, depth_hint, hint_file, name_stem, first_index,
                   second_index>>

PixelNext ==
    \/ FormatNames
    \/ Normalize
    \/ Filter
    \/ FilterAgain
    \/ SaveRgbdWithMask
    \/ WriteDepthHint

Pixels == PixelInit /\ [][PixelNext]_vars

\* =================================================================== claims
ManualRun == capture_mode = "manual"
AutomaticRun == capture_mode = "automatic"
Terminated == pc \in {"returned", "raised"}

\* C1: the session index starts at 0 and counts the save calls that returned: the
\* persisted samples carry the indices 0, 1, ..., image_index - 1 in this order, each
\* once, and no file on disk carries a later index (the current one only when the save
\* call that was writing it raised).
C1_IndexCountsPersistedSamples ==
    /\ Len(saved) = image_index
    /\ \A i \in 1..Len(saved) : saved[i].index = i - 1
    /\ \A f \in disk :
          \/ f.index < image_index
          \/ f.index = image_index /\ exc = "save"

C1_TwoSamplesPersisted ==
    /\ image_index = 2
    /\ pc = "returned"
    /\ \E f \in disk : f.index = 1

\* C2 (as claimed): pipeline.stop() is called exactly once after a successful start,
\* never twice, and never on a stream that was not started.
C2_StopExactlyOnceOnStartedStream ==
    /\ stop_calls <= 1
    /\ stop_calls = 1 => pipeline = "stopped"
    /\ (Terminated /\ pipeline # "idle") => (pipeline = "stopped" /\ stop_calls = 1)

\* C3: a pull that delivers a frame pair lacking a channel goes straight back to the
\* loop test and changes neither the index, the last-capture timestamp, the previous
\* color image nor the disk; the loop test then passes and the next pair is pulled.
C3_SkipChangesNothing ==
    /\ [][(/\ pc = "wait"
           /\ pc' # "finally"
           /\ (color_frame' = NoFrame \/ depth_frame' = NoFrame))
          => /\ pc' = "while"
             /\ UNCHANGED <<image_index, last_capture_timestamp,
                            previous_color_image, disk, saved>>]_vars
    /\ [][(/\ pc = "while"
           /\ pulls > 0
           /\ (color_frame = NoFrame \/ depth_frame = NoFrame))
          => pc' = "wait"]_vars

C3_DepthAbsentPairSkipped ==
    /\ pc = "wait"
    /\ pulls = 1
    /\ color_frame = Green
    /\ depth_frame = NoFrame
    /\ image_index = 0
    /\ disk = {}

\* C4: with a requested count num_images (0 included) the loop never persists more than
\* num_images samples, pulls no frame pair once the index has reached num_images, and
\* a started run whose index has reached num_images ends without an error.
C4_NeverMoreThanRequested ==
    variant # "try" =>
        /\ image_index <= num_images
        /\ Len(saved) <= num_images
        /\ \A f \in disk : f.index < num_images
        /\ pc \in {"wait", "preview", "capture"} => image_index < num_images
        /\ (image_index = num_images /\ pipeline # "idle") =>
              (exc = "none" /\ pc # "raised")

C4_CountReached ==
    /\ pc = "returned"
    /\ num_images = 2
    /\ image_index = num_images
    /\ key # KeyQ

C6_EveryIterationPolls ==
    [][(pc' = "while" /\ pc \notin {"start", "while"}) => pc = "quit"]_vars

\* C6 (amended): the quit key is polled once in every iteration whose frame pair has
\* both channels, in both modes, and such an iteration ends the loop when the key read
\* is the quit key; an iteration skipped because a channel is missing reads no key and
\* goes back to the loop test.
C6_PollPerCompleteFramePair ==
    /\ [][(pc = "wait" /\ pc' # "finally" /\ pc' # "wait")
          => IF color_frame' # NoFrame /\ depth_frame' # NoFrame
             THEN pc' = "preview"
             ELSE pc' = "while" /\ key' = key]_vars
    /\ [][key' # key => (pc = "preview" /\ pc' = "capture")]_vars
    /\ [][pc = "preview" => pc' \in {"preview", "capture", "finally"}]_vars
    /\ [][pc = "capture" => pc' \in {"capture", "quit", "finally"}]_vars
    /\ [][(pc = "quit" /\ pc' # "quit")
          => pc' = IF key = KeyQ THEN "finally" ELSE "while"]_vars

C6_SkippedWithoutPoll ==
    /\ pc = "while"
    /\ pulls = 2
    /\ color_frame = NoFrame
    /\ key = NoKey
    /\ image_index = 0

\* C7: in automatic mode a frame pair is captured exactly when its clock reading t
\* satisfies t >= last_capture_timestamp + interval; the reference is then set to t,
\* and it changes at no other step, so for the n-th capture (n >= 2) it is the clock
\* reading of capture n - 1 and no earlier frame was captured.
C7_CaptureAtFirstElapsedFrame ==
    /\ [][(pc = "capture" /\ AutomaticRun) =>
            /\ pc' = "quit" =>
                  IF current_timestamp' >= last_capture_timestamp + interval
                  THEN /\ image_index' = image_index + 1
                       /\ Len(saved') = Len(saved) + 1
                       /\ last_capture_timestamp' = current_timestamp'
                  ELSE UNCHANGED <<image_index, last_capture_timestamp, disk, saved>>
            /\ pc' = "finally" =>
                  /\ current_timestamp' >= last_capture_timestamp + interval
                  /\ UNCHANGED <<image_index, last_capture_timestamp, saved>>]_vars
    /\ [][last_capture_timestamp' # last_capture_timestamp
          => (pc = "capture" /\ pc' = "quit" /\ AutomaticRun)]_vars

C7_SecondCaptureOneIntervalLater ==
    /\ AutomaticRun
    /\ interval = 1
    /\ image_index = 2
    /\ last_capture_timestamp = 2
    /\ pc = "quit"

\* C8 (as claimed): in automatic mode the first frame pair that reaches the capture
\* decision is persisted, whatever the interval and the clock reading.
C8_FirstFrameAlwaysCaptured ==
    (AutomaticRun /\ pc = "quit") => image_index >= 1

\* C9 (as claimed): in automatic mode with interval 0 every frame pair that reaches the
\* capture decision is persisted, whatever the clock readings.
C9_IntervalZeroCapturesEveryFrame ==
    [][(pc = "capture" /\ AutomaticRun /\ interval = 0 /\ pc' = "quit")
       => image_index' = image_index + 1]_vars

C11_PreviousIsLastPersisted ==
    /\ [](variant # "try" =>
            previous_color_image =
                IF saved = <<>> THEN ZeroFrame ELSE saved[Len(saved)].color)
    /\ [][previous_color_image' # previous_color_image
          => (pc = "capture" /\ pc' = "quit" /\ Len(saved') = Len(saved) + 1)]_vars
    /\ [][(pc = "wait" \/ (pc = "capture" /\ image_index' = image_index))
          => previous_color_image' = previous_color_image]_vars

C11_SecondShotReplacesFirst ==
    /\ variant = "new_image_geting"
    /\ Len(saved) = 2
    /\ saved[1].color = Green
    /\ previous_color_image = Red
    /\ pc = "quit"

\* C12: get_save_dir(base) returns base when base does not exist and otherwise
\* base_k for the smallest k >= 1 such that base_k does not exist: the name it returns
\* does not exist when it returns, with base and base_1 existing and base_2 not it is
\* base_2, and the search, whose counter never exceeds the number of existing names,
\* always comes to its end.
C12_GetSaveDirSmallestFree ==
    /\ [](shell_pc = "capture" =>
            /\ dataset_save_path \notin cwd_names
            /\ base_dir \notin cwd_names => dataset_save_path = base_dir
            /\ base_dir \in cwd_names =>
                  \E k \in 1..(Cardinality(cwd_names) + 1) :
                      /\ dataset_save_path = base_dir \o <<k>>
                      /\ \A j \in 1..(k - 1) : (base_dir \o <<j>>) \in cwd_names
            /\ ({base_dir, base_dir \o <<1>>} \subseteq cwd_names
                    /\ (base_dir \o <<2>>) \notin cwd_names)
                  => dataset_save_path = base_dir \o <<2>>)
    /\ [](shell_pc = "search" => suffix \in 1..Cardinality(cwd_names))
    /\ (shell_pc = "search" ~> shell_pc = "capture")

C12_BaseAndFirstSuffixTaken ==
    /\ shell_pc = "capture"
    /\ base_dir = <<"foo">>
    /\ {<<"foo">>, <<"foo", 1>>} \subseteq cwd_names
    /\ dataset_save_path = <<"foo", 2>>

\* C13 (as claimed): the directory a run writes its samples into did not exist under
\* ../datasets before that run, and no run writes over a sample file of an earlier one.
C13_EveryRunOwnsFreshDirectory ==
    /\ \A k \in 1..Len(sessions) : ~sessions[k].existed
    /\ overwritten = {}

\* <<q, r>> with d * 2^k = 1000 * q + r and 0 <= r < 1000: the quotient d / 1000 in
\* units of 2^-k, and what is left over.
RECURSIVE QuotientInUnits(_, _)
QuotientInUnits(d, k) ==
    IF k = 0 THEN <<d \div 1000, d % 1000>>
    ELSE LET h == QuotientInUnits(d, k - 1)
         IN  <<2 * h[1] + (2 * h[2]) \div 1000, (2 * h[2]) % 1000>>

\* C14 (as claimed): the metric depth of a raw sample d is 0 exactly when d = 0 or
\* d > 5000, and is otherwise the number d / 1000 itself.
C14_MetricDepthIsExactQuotient ==
    (fn = "normalize" /\ fn_pc = "filtered") =>
        /\ depth_aligned = F32Zero <=> (depth_image <= 0 \/ depth_image > 5000)
        /\ depth_aligned # F32Zero =>
              QuotientInUnits(depth_image, -depth_aligned[2]) = <<depth_aligned[1], 0>>

\* C14 (amended): the metric depth of a raw sample d is 0 exactly when d = 0 or
\* d > 5000 (5000 is kept as 5.0, 5001 is zeroed), and is otherwise the float32
\* nearest to d / 1000, ties to even: a normalised 24-bit mantissa at most half a unit
\* in the last place away from d / 1000, and d / 1000 itself exactly when 125 divides d.
C14_MetricDepthIsNearestFloat32 ==
    (fn = "normalize" /\ fn_pc = "filtered") =>
        /\ depth_aligned = F32Zero <=> (depth_image <= 0 \/ depth_image > 5000)
        /\ depth_image = 5000 => depth_aligned = <<10485760, -21>>
        /\ depth_image = 5001 => depth_aligned = F32Zero
        /\ depth_aligned # F32Zero =>
              LET m == depth_aligned[1]
                  qr == QuotientInUnits(depth_image, -depth_aligned[2])
              IN  /\ 8388608 <= m /\ m < 16777216
                  /\ depth_aligned[2] < 0
                  /\ \/ m = qr[1] /\ qr[2] < 500
                     \/ m = qr[1] /\ qr[2] = 500 /\ m % 2 = 0
                     \/ m = qr[1] + 1 /\ qr[2] = 500 /\ m % 2 = 0
                     \/ m = qr[1] + 1 /\ qr[2] > 500
                  /\ (m = qr[1] /\ qr[2] = 0) <=> depth_image % 125 = 0

C14_InexactSampleKept ==
    /\ fn = "normalize"
    /\ fn_pc = "filtered"
    /\ depth_image = 251
    /\ depth_aligned # F32Zero
    /\ QuotientInUnits(depth_image, -depth_aligned[2])[2] # 0

\* C15: the depth filter is idempotent: its output is 0 or a positive sample not
\* above 5.0, and applying the filter to that output changes no sample, for the
\* normalised samples and for any metric sample (negative, zero, in range, beyond).
C15_FilterIdempotent ==
    /\ [](fn_pc \in {"filtered", "refiltered"} =>
            \/ depth_aligned = F32Zero
            \/ /\ depth_aligned[1] > 0
               /\ \/ depth_aligned[2] < -21
                  \/ depth_aligned[2] = -21 /\ depth_aligned[1] <= 10485760)
    /\ [][(fn_pc = "filtered" /\ fn_pc' = "refiltered")
          => depth_aligned' = depth_aligned]_vars

C15_RangeLimitFilteredTwice ==
    /\ fn = "filter"
    /\ fn_pc = "refiltered"
    /\ depth_aligned = <<10485760, -21>>

\* C16: in save_rgbd_with_mask the depth-range mask of a sample d under threshold t is
\* 255 exactly when -t < d < t and 0 otherwise; d = t and d = -t both give 0.
C16_DepthMaskSymmetricOpen ==
    fn_pc = "masked" =>
        /\ depth_mask \in {0, 255}
        /\ depth_mask = 255 <=>
              (-depth_threshold < depth_image /\ depth_image < depth_threshold)
        /\ (depth_image = depth_threshold \/ depth_image = -depth_threshold)
              => depth_mask = 0

C16_BothBoundsFail ==
    /\ fn_pc = "masked"
    /\ depth_threshold = 800
    /\ depth_image = -800
    /\ depth_mask = 0

\* C17: in save_rgbd_with_mask the combined mask of a pixel is 255 exactly when the
\* depth-range test passes and the pixel's hue is in 35..85, its saturation in 40..255
\* and its value in 40..255, and 0 otherwise; the masked color and the masked depth
\* are the input pixel where the mask is set and 0 elsewhere; a green pixel at depth
\* 500 under threshold 800 passes and comes out as it went in.
C17_CombinedMaskIsConjunction ==
    fn_pc = "masked" =>
        LET hsv == BGR2HSV(color_image)
            color_ok == /\ hsv[1] \in 35..85
                        /\ hsv[2] \in 40..255
                        /\ hsv[3] \in 40..255
            depth_ok == -depth_threshold < depth_image /\ depth_image < depth_threshold
        IN  /\ combined_mask \in {0, 255}
            /\ color_mask = 255 <=> color_ok
            /\ combined_mask = 255 <=> (depth_ok /\ color_ok)
            /\ color_masked = IF combined_mask = 255 THEN color_image ELSE <<0, 0, 0>>
            /\ depth_masked = IF combined_mask = 255 THEN depth_image ELSE 0
            /\ (color_image = <<0, 255, 0>> /\ depth_image = 500
                    /\ depth_threshold = 800)
                  => /\ combined_mask = 255
                     /\ color_masked = color_image
                     /\ depth_masked = depth_image

C17_GreenNearPixelPasses ==
    /\ fn_pc = "masked"
    /\ color_image = <<0, 255, 0>>
    /\ depth_image = 500
    /\ depth_threshold = 800
    /\ combined_mask = 255
    /\ color_masked = <<0, 255, 0>>
    /\ depth_masked = 500

\* Reading a depth-hint file by its layout: the unsigned integer a run of bytes holds,
\* least significant byte first, and the float32 a bit pattern stands for.
RECURSIVE LittleEndianValue(_)
LittleEndianValue(bytes) ==
    IF bytes = <<>> THEN 0 ELSE Head(bytes) + 256 * LittleEndianValue(Tail(bytes))

Float32OfBits(b) ==
    IF b = 0 THEN <<0, 0>>
    ELSE <<8388608 + (b % 8388608), ((b \div 8388608) % 256) - 150>>

\* C19: the depth-hint file of a W x H metric depth map is 16 + 4 * W * H bytes: W in
\* bytes 1..8 and H in bytes 9..16 as little-endian unsigned integers, then the
\* float32 samples row after row, sample (r, c) in the four bytes after offset
\* 16 + 4 * ((r - 1) * W + (c - 1)); read back by this layout the file gives the same
\* W, H and samples, bit for bit, and no byte follows the last sample.
C19_DepthHintLayoutRoundTrip ==
    fn_pc = "written" =>
        LET H == Len(depth_hint)
            W == Len(depth_hint[1])
        IN  /\ Len(hint_file) = 16 + 4 * W * H
            /\ \A n \in 1..Len(hint_file) : hint_file[n] \in 0..255
            /\ LittleEndianValue(SubSeq(hint_file, 1, 8)) = W
            /\ LittleEndianValue(SubSeq(hint_file, 9, 16)) = H
            /\ \A r \in 1..H : \A c \in 1..W :
                  LET at == 16 + 4 * ((r - 1) * W + (c - 1))
                  IN  Float32OfBits(LittleEndianValue(SubSeq(hint_file, at + 1, at + 4)))
                        = depth_hint[r][c]

C19_TwoByOneMapWritten ==
    /\ fn_pc = "written"
    /\ Len(depth_hint) = 2
    /\ Len(depth_hint[1]) = 1
    /\ depth_hint[1][1] = <<10485760, -21>>
    /\ depth_hint[2][1] # depth_hint[1][1]
    /\ Len(hint_file) = 24
    /\ SubSeq(hint_file, 1, 20) =
          <<1, 0, 0, 0, 0, 0, 0, 0, 2, 0, 0, 0, 0, 0, 0, 0, 0, 0, 160, 64>>

\* C18: in the masking variant the files of the sample with index i lie under the four
\* sub-paths raw_color, raw_depth, mask_color and mask_depth, one file each, all
\* carrying index i: all four are there unless a cv2.imwrite call returned False, and
\* raw_color and raw_depth hold the frame pair as it came, whatever the mask is (the
\* masked pair of a pixel that fails the mask is all zero, its raw pair is not).
C18_RawAndMaskedSideBySide ==
    variant = "new_image_geting" =>
        /\ \A f \in disk :
              /\ f.dir \in {"raw_color", "raw_depth", "mask_color", "mask_depth"}
              /\ f.stem = IF f.dir \in {"raw_color", "mask_color"} THEN "color"
                          ELSE "depth"
              /\ \A g \in disk : (g.dir = f.dir /\ g.index = f.index) => g = f
        /\ \A n \in 1..Len(saved) :
              LET files == {f \in disk : f.index = saved[n].index}
              IN  /\ Cardinality(files) >= 4 - silent_failures
                  /\ silent_failures = 0 =>
                        {f.dir : f \in files} =
                            {"raw_color", "raw_depth", "mask_color", "mask_depth"}
                  /\ \A f \in files :
                        /\ f.dir = "raw_color" => f.data = saved[n].color
                        /\ f.dir = "raw_depth" => f.data = saved[n].depth
                        /\ f.dir = "mask_color" => f.data \in {saved[n].color, <<0, 0, 0>>}
                        /\ f.dir = "mask_depth" => f.data \in {saved[n].depth, <<0>>}

C18_EmptyMaskRawKept ==
    /\ variant = "new_image_geting"
    /\ Len(saved) = 1
    /\ saved[1].color = <<0, 0, 255>>
    /\ [dir |-> "raw_color", stem |-> "color", index |-> 0, data |-> <<0, 0, 255>>] \in disk
    /\ [dir |-> "raw_depth", stem |-> "depth", index |-> 0, data |-> <<5001>>] \in disk
    /\ [dir |-> "mask_color", stem |-> "color", index |-> 0, data |-> <<0, 0, 0>>] \in disk
    /\ [dir |-> "mask_depth", stem |-> "depth", index |-> 0, data |-> <<0>>] \in disk

\* C20 (as claimed): a write of a sample file that fails, by raising or by
\* cv2.imwrite returning False, is fatal: the step in which it happens leaves the index
\* as it was and hands the run to the cleanup path with the error.
C20_FailedWriteIsFatal ==
    [][(silent_failures' > silent_failures \/ (exc' = "save" /\ exc # "save"))
       => (image_index' = image_index /\ pc' = "finally" /\ exc' = "save")]_vars

\* C21 (as claimed): whenever the run stands between two iterations or has ended, on
\* any path, every index has either all the files of its sample or none, and the
\* indices that have files are exactly 0 .. image_index - 1.
C21_SamplesAreAtomic ==
    pc \in {"while", "returned", "raised"} =>
        \A n \in 0..MaxPulls :
            LET files == {f \in disk : f.index = n}
                whole == CASE variant = "new_image_geting" -> 4
                           [] variant = "test_get_images" -> 3
                           [] OTHER -> 2
            IN  IF n < image_index THEN Cardinality(files) = whole ELSE files = {}

\* C22 (as claimed): a failure of the preview step never ends the capture: the
\* iteration that has a frame pair to show always goes on to its capture decision, and
\* no run ends on an error of the preview.
C22_PreviewFailureNeverAborts ==
    /\ [][pc = "preview" => pc' = "capture"]_vars
    /\ [](exc # "preview")

\* C23 (as claimed): when pipeline.start fails the error reaches the caller, no frame
\* pair is pulled, no sample file is written, and nothing that was not acquired is
\* released: pipeline.stop() is not called on the stream that never started.
C23_OpenFailureReleasesNothingUnacquired ==
    (pipeline = "idle" /\ pc # "start") =>
        /\ exc # "none"
        /\ pc \in {"finally", "raised"}
        /\ pulls = 0
        /\ disk = {}
        /\ saved = <<>>
        /\ stop_calls = 0

\* Lexicographic order of two names, character code by character code.
RECURSIVE SortsBefore(_, _)
SortsBefore(a, b) ==
    IF a = <<>> THEN b # <<>>
    ELSE IF b = <<>> THEN FALSE
    ELSE IF Head(a) # Head(b) THEN Head(a) < Head(b)
    ELSE SortsBefore(Tail(a), Tail(b))

\* C24 (as claimed): the file names of two samples i < j of a session are distinct and
\* sort lexicographically as i and j do, whatever the indices.
C24_NamesSortAsIndices ==
    fn_pc = "named" =>
        /\ first_name # second_name
        /\ SortsBefore(first_name, second_name)

\* C24 (amended): the file names of two samples i < j of a session are distinct; they
\* sort lexicographically as i and j do when j <= 999, and also when i >= 1000 has as
\* many digits as j; a name of index 1000 or more has four or more digits and sorts
\* before the name of a smaller index that starts with a larger digit (color_1000.png
\* comes before color_999.png and before color_101.png).
C24_NamesSortAsIndicesBelowThousand ==
    fn_pc = "named" =>
        /\ first_name # second_name
        /\ Len(first_name) = 6 + (IF first_index < 1000 THEN 3 ELSE 4) + 4
        /\ second_index <= 999 => SortsBefore(first_name, second_name)
        /\ (first_index >= 1000 /\ Len(first_name) = Len(second_name))
              => SortsBefore(first_name, second_name)
        /\ (first_index \in {101, 999} /\ second_index = 1000)
              => SortsBefore(second_name, first_name)

C24_ThousandSortsBeforeNineNineNine ==
    /\ fn_pc = "named"
    /\ first_index = 999
    /\ second_index = 1000
    /\ first_name = <<99, 111, 108, 111, 114, 95, 57, 57, 57, 46, 112, 110, 103>>
    /\ second_name = <<99, 111, 108, 111, 114, 95, 49, 48, 48, 48, 46, 112, 110, 103>>

\* C25: the key is read, then the capture decision is taken, then the quit test: in
\* automatic mode an iteration that has read the quit key and finds the interval
\* elapsed still persists its sample when the save call returns (index advanced by
\* one, timestamp set to the clock reading, previous color image set to the frame, all
\* files of the sample written unless a cv2.imwrite call returned False), and only then
\* the quit test ends the loop, changing nothing more; in manual mode an iteration
\* that has read the quit key persists nothing.
C25_CaptureDecisionBeforeQuitTest ==
    /\ [][(/\ AutomaticRun
           /\ pc = "capture"
           /\ key = 113
           /\ pc' = "quit"
           /\ current_timestamp' - last_capture_timestamp >= interval)
          => /\ image_index' = image_index + 1
             /\ last_capture_timestamp' = current_timestamp'
             /\ previous_color_image' = color_frame
             /\ saved' = Append(saved, [index |-> image_index,
                                        color |-> color_frame,
                                        depth |-> depth_frame])
             /\ \A f \in disk' \ disk : f.index = image_index
             /\ silent_failures' = silent_failures =>
                   Cardinality(disk' \ disk) =
                       CASE variant = "new_image_geting" -> 4
                         [] variant = "test_get_images" -> 3
                         [] OTHER -> 2]_vars
    /\ [][(pc = "quit" /\ key = 113)
          => /\ pc' = "finally"
             /\ UNCHANGED <<image_index, last_capture_timestamp, previous_color_image,
                            disk, saved, pulls>>]_vars
    /\ [][(ManualRun /\ key = 113)
          => UNCHANGED <<image_index, previous_color_image, disk, saved>>]_vars

C25_QuitIterationPersistedItsSample ==
    /\ AutomaticRun
    /\ interval = 1
    /\ key = 113
    /\ pc = "finally"
    /\ exc = "none"
    /\ pulls = 1
    /\ image_index = 1
    /\ last_capture_timestamp = 1
    /\ previous_color_image = color_frame
    /\ Cardinality(disk) >= 2

====

